---- MODULE Spec2Model ----
(***************************************************************************)
(* spend.go: one run of the command that builds, signs and prints a        *)
(* one-input, one-output Bitcoin transaction.  The run is a straight line  *)
(* through main(); every statement of main() is one step of the model, and *)
(* every function main() calls is an operator computed as the code does.   *)
(*                                                                         *)
(* Data.  A Go string is a sequence of one-character strings, a []byte a   *)
(* sequence of 0..255, a pointer is <<>> (nil) or <<x>>.  A uint32 is the   *)
(* pair of its 16-bit halves [w1, w0]; a Go int is [hi, w1, w0], hi being  *)
(* the bits above the low 32 (two's complement), so that the conversion    *)
(* uint32(int) of line 78 drops hi exactly as the machine does.            *)
(***************************************************************************)
EXTENDS Integers, Sequences, FiniteSets, TLC

VARIABLES
    flags,          \* the command line: [a, k, t, v]         (spend.go 37-40)
    intSize,        \* width of Go's int on the build: 32 or 64
    pc,             \* the statement of main() that runs next
    exit,           \* how the process ended, "running" while it has not
    errmsg,         \* the error log.Fatal / the runtime reported
    reqArgs,        \* requiredArgs                            (spend.go 42-47)
    rawFundingTx,   \* *blockChainInfoTx                       (spend.go 91-95)
    oldTxOut,       \* *btcwire.TxOut of the funding output
    outpoint,       \* *btcwire.OutPoint
    tx,             \* *btcwire.MsgTx being built
    sig,            \* the value generateSig returned, <<>> before
    stdout,         \* the lines written to standard output, in order
    requests,       \* the URLs handed to http.Get, in order
    response        \* what the last http.Get came to, <<>> before

vars == <<flags, intSize, pc, exit, errmsg, reqArgs, rawFundingTx, oldTxOut,
          outpoint, tx, sig, stdout, requests, response>>

-----------------------------------------------------------------------------
(* Bounds of the model *)

\* the longest output list a lookup response carries
MaxOutputs == 2

-----------------------------------------------------------------------------
(* Strings, bytes, pointers, machine integers *)

Nil == <<>>
Ptr(x) == <<x>>
Deref(p) == p[1]

Rep(c, n) == [i \in 1..n |-> c]

Reverse(s) == [i \in 1..Len(s) |-> s[Len(s) + 1 - i]]

U32(w1, w0) == [w1 |-> w1, w0 |-> w0]

GoInt(hi, w1, w0) == [hi |-> hi, w1 |-> w1, w0 |-> w0]

\* int -> GoInt for the small non-negative numbers the model indexes with
SmallInt(n) == GoInt(0, 0, n)

MinusOne == GoInt(-1, 65535, 65535)

MinusTwo == GoInt(-1, 65535, 65534)

\* 4294967297 = 2^32 + 1
TwoTo32Plus1 == GoInt(1, 0, 1)

\* the conversion uint32(x) of a Go int: the low 32 bits
uint32(x) == U32(x.w1, x.w0)

\* whether x fits the int of the build (32-bit: hi is the sign extension)
FitsInt(x, size) ==
    \/ size = 64
    \/ x.hi = 0 /\ x.w1 < 32768
    \/ x.hi = -1 /\ x.w1 >= 32768

\* a slice index: in range iff 0 <= i < len
InRange(i, len) == i.w1 = 0 /\ i.w0 < len

HexChars == <<"0", "1", "2", "3", "4", "5", "6", "7",
              "8", "9", "a", "b", "c", "d", "e", "f">>

UpperHex == <<"A", "B", "C", "D", "E", "F">>

IsHexChar(c) ==
    \/ \E i \in 1..16 : HexChars[i] = c
    \/ \E i \in 1..6 : UpperHex[i] = c

HexVal(c) ==
    IF \E i \in 1..16 : HexChars[i] = c
    THEN (CHOOSE i \in 1..16 : HexChars[i] = c) - 1
    ELSE (CHOOSE i \in 1..6 : UpperHex[i] = c) + 9

\* encoding/hex.DecodeString: two digits a byte; an odd length or a character
\* that is no hex digit is an error
hexDecodeString(s) ==
    IF Len(s) % 2 # 0 \/ \E i \in 1..Len(s) : ~IsHexChar(s[i])
    THEN [err |-> TRUE, bytes |-> <<>>]
    ELSE [err |-> FALSE,
          bytes |-> [i \in 1..(Len(s) \div 2) |->
                        16 * HexVal(s[2 * i - 1]) + HexVal(s[2 * i])]]

\* encoding/hex.EncodeToString: lowercase, two digits a byte
hexEncodeToString(b) ==
    [i \in 1..(2 * Len(b)) |->
        IF i % 2 = 1 THEN HexChars[(b[(i + 1) \div 2] \div 16) + 1]
                     ELSE HexChars[(b[i \div 2] % 16) + 1]]

-----------------------------------------------------------------------------
(* The btcsuite calls of spend.go, each computed as the library computes it *)

\* btcwire.MaxHashStringSize: the longest string NewShaHashFromStr accepts
MaxHashStringSize == 64

\* btcwire.HashSize: bytes of a ShaHash
HashSize == 32

\* btcwire.NewShaHashFromStr: a string longer than 64 or not hex is an error
\* (nil hash); otherwise the decoded bytes are reversed and zero-padded to 32
NewShaHashFromStr(s) ==
    IF Len(s) > MaxHashStringSize THEN [err |-> TRUE, hash |-> Nil]
    ELSE LET even == IF Len(s) % 2 # 0 THEN <<"0">> \o s ELSE s
             d == hexDecodeString(even)
         IN IF d.err THEN [err |-> TRUE, hash |-> Nil]
            ELSE [err |-> FALSE,
                  hash |-> Ptr(Reverse(d.bytes)
                               \o Rep(0, HashSize - Len(d.bytes)))]

\* btcwire.ShaHash.String: the hex of the bytes in reverse order
ShaHashString(h) == hexEncodeToString(Reverse(h))

\* the order n of secp256k1 (btcec.S256().N), big-endian bytes
S256N == Rep(255, 15) \o <<254, 186, 174, 220, 230, 175, 72, 160, 59,
                            191, 210, 94, 140, 208, 54, 65, 65>>

\* big.Int.SetBytes: leading zero bytes do not count
RECURSIVE StripZeros(_)
StripZeros(b) ==
    IF b # <<>> /\ b[1] = 0 THEN StripZeros(Tail(b)) ELSE b

\* btcec.PrivKeyFromBytes: D is the big-endian number the bytes spell; it
\* checks neither the length nor the range and returns no error
PrivKeyFromBytes(pk) == Ptr([D |-> StripZeros(pk)])

\* what base58check decoding yields for the address strings the model uses:
\* the version byte, the 20-byte payload, and whether the checksum matches
Base58Table ==
    [s \in {"1PubKeyHashAddr", "3ScriptHashAddr", "1BadChecksumAddr"} |->
        CASE s = "1PubKeyHashAddr" ->
                 [netID |-> 0, hash160 |-> Rep(17, 20), sumOK |-> TRUE]
          [] s = "3ScriptHashAddr" ->
                 [netID |-> 5, hash160 |-> Rep(34, 20), sumOK |-> TRUE]
          [] OTHER ->
                 [netID |-> 0, hash160 |-> Rep(17, 20), sumOK |-> FALSE]]

\* btcutil.DecodeAddress(addr, &btcnet.MainNetParams)
DecodeAddress(s) ==
    IF s \notin DOMAIN Base58Table \/ ~Base58Table[s].sumOK
    THEN [err |-> TRUE, addr |-> Nil]
    ELSE [err |-> FALSE,
          addr |-> Ptr([kind |-> IF Base58Table[s].netID = 0
                                 THEN "PubKeyHash" ELSE "ScriptHash",
                        hash160 |-> Base58Table[s].hash160])]

\* btcscript.PayToAddrScript:
\*   OP_DUP OP_HASH160 <20 bytes> OP_EQUALVERIFY OP_CHECKSIG  (pubkey hash)
\*   OP_HASH160 <20 bytes> OP_EQUAL                           (script hash)
PayToAddrScript(addr) ==
    IF addr = Nil THEN [err |-> TRUE, script |-> <<>>]
    ELSE [err |-> FALSE,
          script |-> IF Deref(addr).kind = "PubKeyHash"
                     THEN <<118, 169, 20>> \o Deref(addr).hash160 \o <<136, 172>>
                     ELSE <<169, 20>> \o Deref(addr).hash160 \o <<135>>]

\* little-endian number spelled by bytes s[from .. from+n-1]
RECURSIVE LittleEndian(_, _, _)
LittleEndian(s, from, n) ==
    IF n = 0 THEN 0 ELSE s[from] + 256 * LittleEndian(s, from + 1, n - 1)

\* btcscript's parseScript from position i: a data push must have all its
\* bytes; every other opcode is one byte
RECURSIVE ParseOk(_, _)
ParseOk(s, i) ==
    IF i > Len(s) THEN TRUE
    ELSE LET op == s[i]
             lenBytes == CASE op = 76 -> 1 [] op = 77 -> 2 [] op = 78 -> 4
                           [] OTHER -> 0
         IN IF op >= 1 /\ op <= 75
            THEN i + op <= Len(s) /\ ParseOk(s, i + op + 1)
            ELSE IF lenBytes > 0
            THEN /\ i + lenBytes <= Len(s)
                 /\ i + lenBytes + LittleEndian(s, i + 1, lenBytes) <= Len(s)
                 /\ ParseOk(s, i + lenBytes
                                 + LittleEndian(s, i + 1, lenBytes) + 1)
            ELSE ParseOk(s, i + 1)

\* btcscript.SigHashAll
SigHashAll == 1

\* btcscript's calcScriptHash for SigHashAll: the digest of a copy of the
\* transaction in which every input script is emptied and input idx carries
\* the subscript, followed by the hash type.  The digest is kept symbolic:
\* it stands for exactly the bytes it was computed over.
calcScriptHash(subscript, hashType, t, idx) ==
    [preimage |->
        [t EXCEPT !.TxIn =
            [i \in 1..Len(t.TxIn) |->
                [t.TxIn[i] EXCEPT !.SignatureScript =
                    IF i = idx + 1 THEN subscript ELSE <<>>]]],
     hashType |-> hashType]

\* btcscript.SignatureScript: fails when the subscript does not parse;
\* otherwise two data pushes, the signature (by D over the digest, hash type
\* appended) and the serialized public key of D
SignatureScript(t, idx, subscript, hashType, privKey, compress) ==
    IF ~ParseOk(subscript, 1) THEN [err |-> TRUE, script |-> <<>>]
    ELSE [err |-> FALSE,
          script |->
            <<[push |-> "signature", D |-> Deref(privKey).D,
               over |-> calcScriptHash(subscript, hashType, t, idx)],
              [push |-> "pubkey", D |-> Deref(privKey).D,
               compressed |-> compress]>>]

\* btcwire.MsgTx.Serialize: the fields in wire order, counts included
Serialize(t) ==
    [version |-> t.Version,
     nIn |-> Len(t.TxIn),
     ins |-> [i \in 1..Len(t.TxIn) |->
                [hash |-> t.TxIn[i].PreviousOutPoint.Hash,
                 index |-> t.TxIn[i].PreviousOutPoint.Index,
                 script |-> t.TxIn[i].SignatureScript,
                 sequence |-> t.TxIn[i].Sequence]],
     nOut |-> Len(t.TxOut),
     outs |-> [i \in 1..Len(t.TxOut) |->
                [value |-> t.TxOut[i].Value,
                 script |-> t.TxOut[i].PkScript]],
     lockTime |-> t.LockTime]

-----------------------------------------------------------------------------
(* The command lines and the lookup responses the model draws from *)

\* -privkey: none, not hex, odd length, the scalar 1 in 32 bytes, the scalar
\* 0 in 32 bytes, 32 bytes of ff (above the curve order), one byte
KeyFlags ==
    { <<>>, <<"z", "z">>, <<"0", "1", "2">>,
      Rep("0", 63) \o <<"1">>, Rep("0", 64), Rep("f", 64), <<"0", "1">> }

\* -address: none, a pubkey-hash address, a script-hash address, a bad checksum
AddressFlags == {"", "1PubKeyHashAddr", "3ScriptHashAddr", "1BadChecksumAddr"}

TxidA == <<"0", "1">> \o Rep("a", 62)

TxidB == Rep("b", 62) \o <<"0", "2">>

\* -txid: none, a transaction id, 65 characters, not hex
TxidFlags == { <<>>, TxidA, Rep("a", 65), <<"z", "z">> }

\* -vout: the default -1, -2, 0, 1, 2^32 + 1
VoutFlags == { MinusOne, MinusTwo, SmallInt(0), SmallInt(1), TwoTo32Plus1 }

\* the locking script of the funding output, as blockchain.info spells it
FundingScriptHex ==
    hexEncodeToString(<<118, 169, 20>> \o Rep(51, 20) \o <<136, 172>>)

\* the outputs a response may list: amounts above, at and below the fee;
\* scripts that are pay-to-pubkey-hash, empty, a truncated push, not hex
OutChoices ==
    { [Value |-> 50000, ScriptHex |-> FundingScriptHex],
      [Value |-> 10000, ScriptHex |-> FundingScriptHex],
      [Value |-> 5000, ScriptHex |-> FundingScriptHex],
      [Value |-> 50000, ScriptHex |-> <<>>],
      [Value |-> 50000, ScriptHex |-> <<"4", "c">>],
      [Value |-> 50000, ScriptHex |-> <<"z", "z">>] }

OutLists == UNION { [1..n -> OutChoices] : n \in 0..MaxOutputs }

\* the hash field of a response: the id asked for, another, empty, not hex
HashFields == { TxidA, TxidB, <<>>, <<"z", "z">> }

\* a response body: text that is not JSON, the object {}, an object of
\* another version, or a version 1 transaction
Bodies ==
    { [json |-> FALSE, ver |-> 0, hash |-> <<>>, out |-> <<>>],
      [json |-> TRUE, ver |-> 0, hash |-> <<>>, out |-> <<>>],
      [json |-> TRUE, ver |-> 2, hash |-> TxidA,
       out |-> <<[Value |-> 50000, ScriptHex |-> FundingScriptHex]>>] }
    \cup { [json |-> TRUE, ver |-> 1, hash |-> h, out |-> o] :
              h \in HashFields, o \in OutLists }

\* what http.Get and reading the body may come to
Responses ==
    { [getErr |-> TRUE, readErr |-> FALSE, body |-> CHOOSE b \in Bodies : ~b.json],
      [getErr |-> FALSE, readErr |-> TRUE, body |-> CHOOSE b \in Bodies : ~b.json] }
    \cup { [getErr |-> FALSE, readErr |-> FALSE, body |-> b] : b \in Bodies }

-----------------------------------------------------------------------------
(* spend.go *)

\* the fee createTxOut sets aside
fee == 10000

\* how a function that may end the process comes out: exit is "running" when
\* it returned, else the way the process ended; out is what it printed
Outcome(e, msg, out, val) == [exit |-> e, err |-> msg, out |-> out, val |-> val]

NoArgs == [txid |-> Nil, vout |-> U32(0, 0), toAddress |-> Nil, privKey |-> Nil]

UsageLines == <<[kind |-> "usage", data |-> <<>>], [kind |-> "blank", data |-> <<>>]>>

getArgs(f, size) ==
    IF ~FitsInt(f.v, size)
    THEN Outcome("flagerr", "invalid value for flag -vout", <<>>, NoArgs)
    ELSE IF f.a = "" \/ f.k = <<>> \/ f.t = <<>> \/ f.v = MinusOne
    THEN Outcome("exit0", "", UsageLines, NoArgs)
    ELSE IF hexDecodeString(f.k).err
    THEN Outcome("fatal", "hex.DecodeString", <<>>, NoArgs)
    ELSE IF DecodeAddress(f.a).err
    THEN Outcome("fatal", "DecodeAddress", <<>>, NoArgs)
    ELSE Outcome("running", "", <<>>,
                 [txid |-> NewShaHashFromStr(f.t).hash,
                  vout |-> uint32(f.v),
                  toAddress |-> DecodeAddress(f.a).addr,
                  privKey |-> PrivKeyFromBytes(hexDecodeString(f.k).bytes)])

\* json.Unmarshal into blockChainInfoTx
jsonUnmarshal(b) ==
    [err |-> ~b.json,
     txinfo |-> [Ver |-> b.ver, Hash |-> b.hash, Outputs |-> b.out]]

\* the URL lookupTxid asks for
LookupUrl(hash) == [host |-> "https://blockchain.info/rawtx/",
                    id |-> ShaHashString(Deref(hash))]

\* lookupTxid without the check of the response's version (lines 119-121)
lookupTxidNoVersionCheck(hash, resp) ==
    IF hash = Nil
    THEN Outcome("panic", "nil pointer dereference", <<>>, Nil)
    ELSE IF resp.getErr
    THEN Outcome("fatal", "Tx Lookup failed", <<>>, Nil)
    ELSE IF resp.readErr
    THEN Outcome("fatal", "TxInfo read failed", <<>>, Nil)
    ELSE LET line == <<[kind |-> "body", data |-> resp.body]>>
             u == jsonUnmarshal(resp.body)
         IN IF u.err
            THEN Outcome("fatal", "json.Unmarshal", line, Nil)
            ELSE Outcome("running", "", line, Ptr(u.txinfo))

lookupTxid(hash, resp) ==
    IF hash = Nil
    THEN Outcome("panic", "nil pointer dereference", <<>>, Nil)
    ELSE IF resp.getErr
    THEN Outcome("fatal", "Tx Lookup failed", <<>>, Nil)
    ELSE IF resp.readErr
    THEN Outcome("fatal", "TxInfo read failed", <<>>, Nil)
    ELSE LET line == <<[kind |-> "body", data |-> resp.body]>>
             u == jsonUnmarshal(resp.body)
         IN IF u.err
            THEN Outcome("fatal", "json.Unmarshal", line, Nil)
            ELSE IF u.txinfo.Ver # 1
            THEN Outcome("fatal", "Blockchain.info's response seems bad", line, Nil)
            ELSE Outcome("running", "", line, Ptr(u.txinfo))

NoFunding == [oldTxOut |-> Nil, outpoint |-> Nil]

getFundingParams(rawtx, vout) ==
    LET line == <<[kind |-> "rawtx", data |-> Deref(rawtx)]>>
    IN IF ~InRange(vout, Len(Deref(rawtx).Outputs))
       THEN Outcome("panic", "index out of range", line, NoFunding)
       ELSE LET blkChnTxOut == Deref(rawtx).Outputs[vout.w0 + 1]
                h == NewShaHashFromStr(Deref(rawtx).Hash)
                sub == hexDecodeString(blkChnTxOut.ScriptHex)
            IN IF h.err
               THEN Outcome("fatal", "NewShaHashFromStr", line, NoFunding)
               ELSE IF sub.err
               THEN Outcome("fatal", "hex.DecodeString", line, NoFunding)
               ELSE Outcome("running", "", line,
                      [oldTxOut |-> Ptr([Value |-> blkChnTxOut.Value,
                                         PkScript |-> sub.bytes]),
                       outpoint |-> Ptr([Hash |-> Deref(h.hash),
                                         Index |-> vout])])

\* btcwire.NewMsgTx: version 1, no inputs, no outputs, lock time 0
NewMsgTx == [Version |-> 1, TxIn |-> <<>>, TxOut |-> <<>>, LockTime |-> 0]

\* btcwire.MaxTxInSequenceNum = 0xffffffff
MaxTxInSequenceNum == U32(65535, 65535)

\* createTxIn handing NewTxIn a script that is not empty (line 191)
createTxInWithScript(op) ==
    [PreviousOutPoint |-> Deref(op), SignatureScript |-> <<0>>,
     Sequence |-> MaxTxInSequenceNum]

createTxIn(op) ==
    [PreviousOutPoint |-> Deref(op), SignatureScript |-> <<>>,
     Sequence |-> MaxTxInSequenceNum]

createTxOut(inCoin, addr) ==
    LET outCoin == inCoin - fee
        s == PayToAddrScript(addr)
    IN IF s.err
       THEN Outcome("fatal", "PayToAddrScript", <<>>, [Value |-> 0, PkScript |-> <<>>])
       ELSE Outcome("running", "", <<>>, [Value |-> outCoin, PkScript |-> s.script])

generateSig(t, privkey, scriptPubKey) ==
    LET s == SignatureScript(Deref(t), 0, scriptPubKey, SigHashAll, privkey, TRUE)
    IN IF s.err
       THEN Outcome("fatal", "SignatureScript", <<>>, <<>>)
       ELSE Outcome("running", "", <<>>, s.script)

\* the line dumpHex prints: the lowercase hex of the serialized transaction
dumpHex(t) ==
    <<[kind |-> "hex", data |-> Serialize(Deref(t))]>>

-----------------------------------------------------------------------------
(* main(): one action per statement.  A call that ends the process (os.Exit, *)
(* log.Fatal, a runtime panic) leaves pc at the statement that ended it.     *)

Init ==
    /\ flags \in [a : AddressFlags, k : KeyFlags, t : TxidFlags, v : VoutFlags]
    /\ intSize \in {32, 64}
    /\ pc = "getArgs"
    /\ exit = "running"
    /\ errmsg = ""
    /\ reqArgs = NoArgs
    /\ rawFundingTx = Nil
    /\ oldTxOut = Nil
    /\ outpoint = Nil
    /\ tx = Nil
    /\ sig = <<>>
    /\ stdout = <<>>
    /\ requests = <<>>
    /\ response = Nil

\* the part of a step every call shares: what it printed, and either the
\* next statement or the end of the process
Step(o, next) ==
    /\ stdout' = stdout \o o.out
    /\ exit' = o.exit
    /\ errmsg' = o.err
    /\ pc' = IF o.exit = "running" THEN next ELSE pc

\* reqArgs := getArgs()
GetArgs ==
    /\ pc = "getArgs" /\ exit = "running"
    /\ LET o == getArgs(flags, intSize)
       IN /\ Step(o, "lookupTxid")
          /\ reqArgs' = o.val
    /\ UNCHANGED <<flags, intSize, rawFundingTx, oldTxOut, outpoint, tx, sig,
                   requests, response>>

\* rawFundingTx := lookupTxid(reqArgs.txid)
LookupTxid ==
    /\ pc = "lookupTxid" /\ exit = "running"
    /\ \E resp \in Responses :
          LET o == lookupTxid(reqArgs.txid, resp)
          IN /\ Step(o, "getFundingParams")
             /\ rawFundingTx' = o.val
          /\ response' = IF reqArgs.txid = Nil THEN response ELSE Ptr(resp)
    /\ requests' = IF reqArgs.txid = Nil THEN requests
                   ELSE Append(requests, LookupUrl(reqArgs.txid))
    /\ UNCHANGED <<flags, intSize, reqArgs, oldTxOut, outpoint, tx, sig>>

\* oldTxOut, outpoint := getFundingParams(rawFundingTx, reqArgs.vout)
GetFundingParams ==
    /\ pc = "getFundingParams" /\ exit = "running"
    /\ LET o == getFundingParams(rawFundingTx, reqArgs.vout)
       IN /\ Step(o, "NewMsgTx")
          /\ oldTxOut' = o.val.oldTxOut
          /\ outpoint' = o.val.outpoint
    /\ UNCHANGED <<flags, intSize, reqArgs, rawFundingTx, tx, sig, requests, response>>

\* tx := btcwire.NewMsgTx()
NewTx ==
    /\ pc = "NewMsgTx" /\ exit = "running"
    /\ tx' = Ptr(NewMsgTx)
    /\ pc' = "createTxIn"
    /\ UNCHANGED <<flags, intSize, exit, errmsg, reqArgs, rawFundingTx,
                   oldTxOut, outpoint, sig, stdout, requests, response>>

\* txin := createTxIn(outpoint); tx.AddTxIn(txin)
AddTxIn ==
    /\ pc = "createTxIn" /\ exit = "running"
    /\ tx' = Ptr([Deref(tx) EXCEPT !.TxIn = Append(@, createTxIn(outpoint))])
    /\ pc' = "createTxOut"
    /\ UNCHANGED <<flags, intSize, exit, errmsg, reqArgs, rawFundingTx,
                   oldTxOut, outpoint, sig, stdout, requests, response>>

\* txout := createTxOut(oldTxOut.Value, reqArgs.toAddress); tx.AddTxOut(txout)
AddTxOut ==
    /\ pc = "createTxOut" /\ exit = "running"
    /\ LET o == createTxOut(Deref(oldTxOut).Value, reqArgs.toAddress)
       IN /\ Step(o, "generateSig")
          /\ tx' = IF o.exit = "running"
                   THEN Ptr([Deref(tx) EXCEPT !.TxOut = Append(@, o.val)])
                   ELSE tx
    /\ UNCHANGED <<flags, intSize, reqArgs, rawFundingTx, oldTxOut, outpoint,
                   sig, requests, response>>

\* sig := generateSig(tx, reqArgs.privKey, oldTxOut.PkScript)
GenerateSig ==
    /\ pc = "generateSig" /\ exit = "running"
    /\ LET o == generateSig(tx, reqArgs.privKey, Deref(oldTxOut).PkScript)
       IN /\ Step(o, "setSig")
          /\ sig' = o.val
    /\ UNCHANGED <<flags, intSize, reqArgs, rawFundingTx, oldTxOut, outpoint,
                   tx, requests, response>>

\* tx.TxIn[0].SignatureScript = sig
SetSig ==
    /\ pc = "setSig" /\ exit = "running"
    /\ tx' = Ptr([Deref(tx) EXCEPT !.TxIn[1].SignatureScript = sig])
    /\ pc' = "dumpHex"
    /\ UNCHANGED <<flags, intSize, exit, errmsg, reqArgs, rawFundingTx,
                   oldTxOut, outpoint, sig, stdout, requests, response>>

\* dumpHex(tx), and main returns
DumpHex ==
    /\ pc = "dumpHex" /\ exit = "running"
    /\ stdout' = stdout \o dumpHex(tx)
    /\ pc' = "return"
    /\ exit' = "ok"
    /\ UNCHANGED <<flags, intSize, errmsg, reqArgs, rawFundingTx, oldTxOut,
                   outpoint, tx, sig, requests, response>>

Next ==
    \/ GetArgs
    \/ LookupTxid
    \/ GetFundingParams
    \/ NewTx
    \/ AddTxIn
    \/ AddTxOut
    \/ GenerateSig
    \/ SetSig
    \/ DumpHex

Spec == Init /\ [][Next]_vars

-----------------------------------------------------------------------------
(* What the claims speak of *)

HexLines == { i \in 1..Len(stdout) : stdout[i].kind = "hex" }

\* a transaction hex has been written
Emitted == HexLines # {}

\* the serialized transaction of the hex line
EmittedTx == stdout[CHOOSE i \in HexLines : TRUE].data

\* an input or an output has been added to the transaction
TxBuilt == tx # Nil /\ (Deref(tx).TxIn # <<>> \/ Deref(tx).TxOut # <<>>)

\* no TxIn, no TxOut, no signature, no hex
NothingBuilt == ~TxBuilt /\ sig = <<>> /\ ~Emitted

\* t with every input's script emptied
BlankScripts(t) ==
    [t EXCEPT !.TxIn = [i \in 1..Len(t.TxIn) |->
                           [t.TxIn[i] EXCEPT !.SignatureScript = <<>>]]]

\* a < b for big-endian byte strings of one length
RECURSIVE BytesLess(_, _)
BytesLess(a, b) ==
    IF a = <<>> THEN FALSE
    ELSE IF a[1] # b[1] THEN a[1] < b[1]
    ELSE BytesLess(Tail(a), Tail(b))

\* the hex spells exactly 32 bytes, a scalar in [1, n-1]
ValidPrivKeyHex(k) ==
    LET d == hexDecodeString(k)
    IN /\ ~d.err
       /\ Len(d.bytes) = 32
       /\ \E i \in 1..32 : d.bytes[i] # 0
       /\ BytesLess(d.bytes, S256N)

\* one of the three parses of getArgs failed
ParseFailed ==
    \/ hexDecodeString(flags.k).err
    \/ DecodeAddress(flags.a).err
    \/ NewShaHashFromStr(flags.t).err

\* the lookup failed: transport, body, JSON or version
LookupFailed(r) == r.getErr \/ r.readErr \/ ~r.body.json \/ r.body.ver # 1

-----------------------------------------------------------------------------
(* The claims *)

\* C1: a funding value at or below the fee (10,000) is refused: no TxOut is
\* created, nothing is signed, no hex is written; and no transaction ever
\* holds an output whose value is zero or negative.
C1_InsufficientFundsRejected ==
    /\ (oldTxOut # Nil /\ Deref(oldTxOut).Value <= fee)
          => /\ tx = Nil \/ Deref(tx).TxOut = <<>>
             /\ sig = <<>>
             /\ ~Emitted
    /\ tx # Nil
          => \A i \in 1..Len(Deref(tx).TxOut) : Deref(tx).TxOut[i].Value > 0

\* C2: an emitted transaction has one input and one output; the input
\* references (hash of the funding record, the output index the caller asked
\* for); the output pays the value of the funding output at that index less
\* 10,000 to payToAddressScript(destination).
C2_EmittedTxShape ==
    Emitted =>
        LET e == EmittedTx
            rawtx == Deref(rawFundingTx)
        IN /\ e.nIn = 1
           /\ e.nOut = 1
           /\ e.ins[1].hash = Deref(NewShaHashFromStr(rawtx.Hash).hash)
           /\ flags.v = GoInt(0, e.ins[1].index.w1, e.ins[1].index.w0)
           /\ InRange(uint32(flags.v), Len(rawtx.Outputs))
           /\ e.outs[1].value = rawtx.Outputs[flags.v.w0 + 1].Value - fee
           /\ e.outs[1].script
                 = PayToAddrScript(DecodeAddress(flags.a).addr).script

\* C3: a lookup result whose output list does not reach the requested index,
\* or whose hash is not the requested id, ends the run before any funding
\* output is selected or anything is built; so the outpoint hash of an
\* emitted transaction is the requested txid.
C3_LookupValidated ==
    /\ (/\ rawFundingTx # Nil
        /\ \/ ~InRange(reqArgs.vout, Len(Deref(rawFundingTx).Outputs))
           \/ Deref(rawFundingTx).Hash # ShaHashString(Deref(reqArgs.txid)))
          => oldTxOut = Nil /\ outpoint = Nil /\ NothingBuilt
    /\ Emitted => EmittedTx.ins[1].hash = Deref(reqArgs.txid)

\* C4: the input's script is empty until the signature is computed; the
\* signature is computed over a transaction that already has its one input
\* and its one output; from then on, and in the serialized transaction, only
\* input 0's script differs from what was signed.
C4_SigningIsTerminal ==
    /\ (sig = <<>> /\ tx # Nil)
          => \A i \in 1..Len(Deref(tx).TxIn) :
                Deref(tx).TxIn[i].SignatureScript = <<>>
    /\ sig # <<>>
          => /\ Len(sig[1].over.preimage.TxIn) = 1
             /\ Len(sig[1].over.preimage.TxOut) = 1
             /\ BlankScripts(Deref(tx)) = BlankScripts(sig[1].over.preimage)
    /\ Emitted
          => /\ sig # <<>>
             /\ EmittedTx.ins[1].script = sig
             /\ EmittedTx = Serialize([BlankScripts(sig[1].over.preimage)
                                          EXCEPT !.TxIn[1].SignatureScript = sig])

\* C4's case: a run that signed and wrote the hex
C4_Witness == pc = "return" /\ Emitted /\ sig # <<>>

\* C5: a -privkey that is not 32 bytes of hex spelling a scalar in [1, n-1]
\* yields no private key, and nothing is ever signed with it.
C5_InvalidKeyRejected ==
    ~ValidPrivKeyHex(flags.k) => reqArgs.privKey = Nil /\ sig = <<>>

\* C6: once the private key, the address or the txid fails to parse, the run
\* ends in getArgs: lookupTxid is not called, and nothing is built.
C6_ParseErrorsTerminate ==
    ParseFailed => pc = "getArgs" /\ requests = <<>> /\ NothingBuilt

\* C7: past argument parsing the only thing written to standard output is
\* the hex line, one line, and only once input 0 holds the signature script.
C7_OnlyHexOnStdout ==
    /\ pc # "getArgs" => \A i \in 1..Len(stdout) : stdout[i].kind = "hex"
    /\ exit = "ok" => Len(stdout) = 1
    /\ Emitted => sig # <<>> /\ Deref(tx).TxIn[1].SignatureScript = sig

\* C8: an index that getArgs accepts is non-negative and is, unchanged, the
\* index used to select the funding output and put in the outpoint.
C8_IndexNotCoerced ==
    /\ pc # "getArgs" => flags.v = GoInt(0, reqArgs.vout.w1, reqArgs.vout.w0)
    /\ outpoint # Nil
          => flags.v = GoInt(0, Deref(outpoint).Index.w1, Deref(outpoint).Index.w0)

\* C9: with a funding output whose locking script is empty, or a funding
\* record whose hash is empty, nothing is signed, input 0 keeps its empty
\* script and no hex is written.
C9_MalformedSigningInputsAbort ==
    (\/ oldTxOut # Nil /\ Deref(oldTxOut).PkScript = <<>>
     \/ rawFundingTx # Nil /\ Deref(rawFundingTx).Hash = <<>>)
        => /\ sig = <<>>
           /\ tx # Nil => \A i \in 1..Len(Deref(tx).TxIn) :
                              Deref(tx).TxIn[i].SignatureScript = <<>>
           /\ ~Emitted

\* C10: a run makes at most one lookup; after a failed lookup (transport,
\* body, JSON, version other than 1) the run has ended there, with the one
\* request made and nothing built.
C10_SingleLookupNoPartial ==
    /\ Len(requests) <= 1
    /\ (response # Nil /\ LookupFailed(Deref(response)))
          => /\ exit = "fatal"
             /\ pc = "lookupTxid"
             /\ Len(requests) = 1
             /\ rawFundingTx = Nil
             /\ oldTxOut = Nil
             /\ NothingBuilt

\* C10's case: a well-formed response of another version ended the run
C10_Witness ==
    /\ response # Nil
    /\ Deref(response).body.json
    /\ Deref(response).body.ver # 1
    /\ exit = "fatal"
    /\ stdout # <<>>

====
